---- MODULE Spec2Model ----
(***************************************************************************)
(* OpenADR 2.0 VEN event handler (oadr2/event.py): EventHandler and the    *)
(* accessors of an eiEvent record.                                         *)
(*                                                                         *)
(* An XML element is modelled by the values the accessors read from it.    *)
(* A value that can be None (a findtext result, the text of an element, an *)
(* id of the handler, a stored event) is the empty sequence <<>> when it  *)
(* is None and <<v>> when it is v: the text E1 is <<"E1">>, and no text,   *)
(* the text "None" included, is None.  Lists of elements are sequences.    *)
(* findtext gives the empty text <<"">> for an element without text; a     *)
(* start tolerance is None or the text of the element, a duration such as  *)
(* <<"PT1M">> or the empty text.                                           *)
(***************************************************************************)
EXTENDS Integers, Sequences, FiniteSets, TLC

\* ------------------------------------------------------------------ bounds
\* Largest modificationNumber a VTN sends.
MaxMod == 1
\* Largest number of oadrEvent elements in one payload of the store scenarios.
MaxBatch == 2
\* Largest number of oadrEvent elements in one payload of the filter scenario.
MaxBatchFilter == 1
\* Largest number of oadrEvent elements in one payload of the jitter scenario.
MaxBatchJitter == 1
\* Largest number of oadrEvent elements in one payload of a threaded pass.
MaxRaceBatch == 1

\* ------------------------------------------------------------- vocabulary
None == <<>>
VALID_SIGNAL_TYPES == {<<"level">>, <<"price">>, <<"delta">>, <<"setpoint">>}

Range(s) == {s[i] : i \in 1..Len(s)}
\* Python truthiness of an optional text or of a list: None, the empty list
\* and the empty text are false.  The values are compared as printed, a text
\* and a list having no other comparison.
Truthy(x) == x # <<>> /\ ToString(x) # ToString(<<"">>)
EmptyDict == [k \in {} |-> k]
DictSet(d, k, v) == [x \in (DOMAIN d) \cup {k} |-> IF x = k THEN v ELSE d[x]]

\* ------------------------------------------------------- record accessors
get_event_id(evt) == evt.eventID

\* int(findtext(...)): a missing or non-numeric modificationNumber raises.
mod_number_raises(evt) == evt.modificationNumber = <<>>
get_mod_number(evt) == evt.modificationNumber[1]

get_market_context(evt) == evt.marketContext

get_start_before_after(evt) == <<evt.startbefore, evt.startafter>>
get_active_period_start(evt) == evt.dtstart
set_active_period_start(evt, dttm) == [evt EXCEPT !.dtstart = dttm]

get_group_ids(evt) == evt.groupID
get_resource_ids(evt) == evt.resourceID
get_party_ids(evt) == evt.partyID
get_ven_ids(evt) == evt.venID

\* simple_signal_of keeping the first signal that qualifies.
simple_signal_of_first(sigs, found) ==
    LET ok == { k \in 1..Len(sigs) :
                  /\ sigs[k].signalName = <<"simple">>
                  /\ sigs[k].signalType \in VALID_SIGNAL_TYPES }
    IN  IF ok = {} THEN found
        ELSE <<sigs[CHOOSE k \in ok : \A j \in ok : k <= j]>>

\* The last eiEventSignal named "simple" with a valid type, <<>> when none.
RECURSIVE simple_signal_of(_, _)
simple_signal_of(sigs, found) ==
    IF sigs = <<>> THEN found
    ELSE LET signal == Head(sigs) IN
         IF signal.signalName = <<"simple">> /\ signal.signalType \in VALID_SIGNAL_TYPES
         THEN simple_signal_of(Tail(sigs), <<signal>>)
         ELSE simple_signal_of(Tail(sigs), found)

\* get_signals giving an empty list when there is no simple signal.
get_signals_empty_list(evt) ==
    LET simple_signal == simple_signal_of(evt.signals, <<>>) IN
    IF simple_signal = <<>> THEN << <<>> >>
    ELSE LET ivs == simple_signal[1].intervals IN
         << [i \in 1..Len(ivs) |-> <<ivs[i].duration, ivs[i].uid, ivs[i].value>>] >>

\* None (<<>>) or <<list of (duration, uid, value)>>.
get_signals(evt) ==
    LET simple_signal == simple_signal_of(evt.signals, <<>>) IN
    IF simple_signal = <<>> THEN <<>>
    ELSE LET ivs == simple_signal[1].intervals IN
         << [i \in 1..Len(ivs) |-> <<ivs[i].duration, ivs[i].uid, ivs[i].value>>] >>

\* --------------------------------------------------------- Event Store
\* database.DBHandler: one row (vtn_id, mod_num, raw_xml) per event id.
\* etree.tostring / etree.XML keep every field the accessors read, so the
\* row holds the eiEvent record.
db_get_event(db, e_id) == IF e_id \in DOMAIN db THEN <<db[e_id].raw_xml>> ELSE <<>>
db_get_active_events(db) == [e_id \in DOMAIN db |-> db[e_id].raw_xml]
db_update_event(db, e_id, mod_num, raw_xml, vtn_id) ==
    DictSet(db, e_id, [vtn_id |-> vtn_id, mod_num |-> mod_num, raw_xml |-> raw_xml])
db_remove_events(db, evt_id_list) == [e_id \in (DOMAIN db) \ evt_id_list |-> db[e_id]]
db_update_all_events(db, event_rows) == event_rows

\* EventHandler.get_event: None (<<>>) or <<the parsed event>>.
get_event(db, e_id) == db_get_event(db, e_id)
\* EventHandler.update_event
update_event(db, e_id, event, vtn_id) ==
    db_update_event(db, e_id, get_mod_number(event), event, vtn_id)
\* EventHandler.get_active_events: the stored events, parsed; itervalues
\* leaves the keys of the rows behind.
get_active_events(db) ==
    LET active == db_get_active_events(db) IN {active[e_id] : e_id \in DOMAIN active}
\* EventHandler.remove_events
remove_events(db, evt_id_list) == db_remove_events(db, evt_id_list)
\* EventHandler.update_all_events: the rows of event_dict and no other.
update_all_events(db, event_dict, vtn_id) ==
    db_update_all_events(db,
        [ e_id \in DOMAIN event_dict |->
            [ vtn_id |-> vtn_id, mod_num |-> get_mod_number(event_dict[e_id]),
              raw_xml |-> event_dict[e_id] ] ])

\* ------------------------------------------------------ Offset Scheduler
\* The minutes of a duration text.
duration_minutes(text) == IF text = "PT1M" THEN 1 ELSE 0
\* schedule.random_offset: a time in [start - before, start + after], an
\* absent bound giving no slack; rnd is the draw of this call.
random_offset(start, before, after, rnd) ==
    LET b == IF Truthy(before) THEN duration_minutes(before[1]) ELSE 0
        a == IF Truthy(after) THEN duration_minutes(after[1]) ELSE 0
    IN  IF rnd < -b THEN start - b ELSE IF rnd > a THEN start + a ELSE start + rnd

\* ------------------------------------------------------------ targeting
\* check_target_info asking for a match in every populated category.
check_target_info_every_category(self, evt) ==
    LET party_ids == get_party_ids(evt)
        group_ids == get_group_ids(evt)
        resource_ids == get_resource_ids(evt)
        ven_ids == get_ven_ids(evt)
    IN  /\ (Truthy(party_ids) => self.party_id \in Range(party_ids))
        /\ (Truthy(group_ids) => self.group_id \in Range(group_ids))
        /\ (Truthy(resource_ids) => self.resource_id \in Range(resource_ids))
        /\ (Truthy(ven_ids) => self.ven_id \in Range(ven_ids))

check_target_info(self, evt) ==
    LET party_ids == get_party_ids(evt)
        group_ids == get_group_ids(evt)
        resource_ids == get_resource_ids(evt)
        ven_ids == get_ven_ids(evt)
    IN  IF Truthy(party_ids) \/ Truthy(group_ids) \/ Truthy(resource_ids) \/ Truthy(ven_ids)
        THEN \/ (Truthy(party_ids) /\ self.party_id \in Range(party_ids))
             \/ (Truthy(group_ids) /\ self.group_id \in Range(group_ids))
             \/ (Truthy(resource_ids) /\ self.resource_id \in Range(resource_ids))
             \/ (Truthy(ven_ids) /\ self.ven_id \in Range(ven_ids))
        ELSE TRUE

\* ------------------------------------------------------ response payloads
\* An ElementMaker takes no None for the text of an element:
\* pyld.requestID(requestID), ei.eventID(e_id) and ei.venID(self.ven_id) raise
\* TypeError on it, and no payload is built.
build_created_payload_raises(self, events) ==
    \/ \E i \in 1..Len(events) : events[i][1] = None \/ events[i][3] = None
    \/ self.ven_id = None

\* The payload, for events that build_created_payload does not raise on.
build_created_payload(self, events) ==
    [ tag |-> "oadrCreatedEvent",
      responseCode |-> "200",
      requestID |-> "",
      eventResponses |->
          [i \in 1..Len(events) |->
              [ responseCode |-> events[i][5],
                requestID |-> events[i][3][1],
                eventID |-> events[i][1][1],
                modificationNumber |-> ToString(events[i][2]),
                optType |-> events[i][4] ]],
      venID |-> self.ven_id[1] ]

build_error_response_raises(self) == self.ven_id = None

\* request_id and description are parameters the payload is built without.
build_error_response(self, request_id, code, description) ==
    [ tag |-> "oadrCreatedEvent",
      responseCode |-> code,
      requestID |-> "",
      venID |-> self.ven_id[1] ]

\* findtext on a reply payload: None (<<>>) when the element is not there.
reply_text(p, field) == IF field \in DOMAIN p THEN <<p[field]>> ELSE <<>>

\* --------------------------------------------------------- handle_payload
\* vtn_rejected with the membership test inverted.
vtn_rejected_inverted(self, vtnID) ==
    Truthy(self.vtn_ids) /\ vtnID \in Range(self.vtn_ids)

\* The VTN check of the batch.
vtn_rejected(self, vtnID) ==
    Truthy(self.vtn_ids) /\ vtnID \notin Range(self.vtn_ids)

\* reply_needed answering a new event whatever its response flag.
reply_needed_new_despite_never(old_event, e_mod_num, response_required) ==
    \/ old_event = <<>>
    \/ /\ \/ e_mod_num > get_mod_number(old_event[1])
          \/ response_required = <<"always">>
       /\ response_required # <<"never">>

\* The events we need to reply to.
reply_needed(old_event, e_mod_num, response_required) ==
    /\ \/ old_event = <<>>
       \/ e_mod_num > get_mod_number(old_event[1])
       \/ response_required = <<"always">>
    /\ response_required # <<"never">>

\* opt_status taking an equal modificationNumber for a smaller one.
opt_status_equal_conflicts(self, evt, e_mod_num, old_event) ==
    LET s0 == <<"optIn", "200">>
        s1 == IF old_event # <<>> /\ get_mod_number(old_event[1]) >= e_mod_num
              THEN <<"optOut", "403">> ELSE s0
        s2 == IF ~check_target_info(self, evt) THEN <<"optOut", "403">> ELSE s1
        s3 == IF get_signals(evt) = <<>> THEN <<"optOut", "403">> ELSE s2
        s4 == IF Truthy(self.market_contexts)
                 /\ get_market_context(evt) \notin Range(self.market_contexts)
              THEN <<"optOut", "405">> ELSE s3
    IN  s4

\* opt_status stopping at the first check that fails.
opt_status_first_failure(self, evt, e_mod_num, old_event) ==
    IF old_event # <<>> /\ get_mod_number(old_event[1]) > e_mod_num
    THEN <<"optOut", "403">>
    ELSE IF ~check_target_info(self, evt) THEN <<"optOut", "403">>
    ELSE IF get_signals(evt) = <<>> THEN <<"optOut", "403">>
    ELSE IF Truthy(self.market_contexts)
            /\ get_market_context(evt) \notin Range(self.market_contexts)
    THEN <<"optOut", "405">>
    ELSE <<"optIn", "200">>

\* <<opt, status>> of a reply: every check runs, a later one overwrites.
opt_status(self, evt, e_mod_num, old_event) ==
    LET s0 == <<"optIn", "200">>
        s1 == IF old_event # <<>> /\ get_mod_number(old_event[1]) > e_mod_num
              THEN <<"optOut", "403">> ELSE s0
        s2 == IF ~check_target_info(self, evt) THEN <<"optOut", "403">> ELSE s1
        s3 == IF get_signals(evt) = <<>> THEN <<"optOut", "403">> ELSE s2
        s4 == IF Truthy(self.market_contexts)
                 /\ get_market_context(evt) \notin Range(self.market_contexts)
              THEN <<"optOut", "405">> ELSE s3
    IN  s4

\* is_new_or_updated taking every event for an update.
is_new_or_updated_unconditional(old_event, e_mod_num) == TRUE

\* is_new_or_updated taking any other modificationNumber for an update.
is_new_or_updated_or_smaller(old_event, e_mod_num) ==
    old_event = <<>> \/ e_mod_num # get_mod_number(old_event[1])

\* is_new_or_updated taking an equal modificationNumber for an update.
is_new_or_updated_or_equal(old_event, e_mod_num) ==
    old_event = <<>> \/ e_mod_num >= get_mod_number(old_event[1])

\* A new event or an updated old one.
is_new_or_updated(old_event, e_mod_num) ==
    old_event = <<>> \/ e_mod_num > get_mod_number(old_event[1])

\* offset_call calling the scheduler whether or not a start offset is given.
offset_call_unconditional(evt, rnd) ==
    LET start_offset == get_start_before_after(evt)
        start == get_active_period_start(evt)
    IN  << [ start |-> start, before |-> start_offset[1], after |-> start_offset[2],
             new_start |-> random_offset(start, start_offset[1], start_offset[2], rnd) ] >>

\* The call of schedule.random_offset for an event: None (<<>>) when no start
\* offset is given, else <<the arguments and the returned start time>>.
offset_call(evt, rnd) ==
    LET start_offset == get_start_before_after(evt) IN
    IF Truthy(start_offset[1]) \/ Truthy(start_offset[2])
    THEN LET start == get_active_period_start(evt) IN
         << [ start |-> start, before |-> start_offset[1], after |-> start_offset[2],
              new_start |-> random_offset(start, start_offset[1], start_offset[2], rnd) ] >>
    ELSE <<>>

\* The start time randomized when a start offset is given.
randomize_start(evt, rnd) ==
    LET call == offset_call(evt, rnd) IN
    IF call # <<>> THEN set_active_period_start(evt, call[1].new_start) ELSE evt

\* The scheduler draws anew at every call: rnd lists its draws in the order of
\* the calls of the pass, and the call after Len(st.offset_calls) calls gets
\* the next one (0 when the list is used up).
next_draw(st, rnd) ==
    IF Len(st.offset_calls) < Len(rnd) THEN rnd[Len(st.offset_calls) + 1] ELSE 0

\* The locals of handle_payload before the loop; offset_calls lists the calls
\* of schedule.random_offset, each with the id of its event, and seen the
\* oadrEvent elements of the payload the loop has been over, as it left them:
\* set_active_period_start rewrites the eiEvent inside the payload.
loop_start(db) ==
    [ db |-> db, reply_events |-> <<>>, all_events |-> <<>>,
      updated_events |-> EmptyDict, offset_calls |-> <<>>, seen |-> <<>>,
      raised |-> FALSE ]

\* loop_decide putting a new decision in front of the list.
loop_decide_prepends(self, st, oadrEvent, old_event, requestID, vtnID, rnd) ==
    LET response_required == oadrEvent.oadrResponseRequired
        evt == oadrEvent.eiEvent
        e_id == get_event_id(evt)
        e_mod_num == get_mod_number(evt)
        os == opt_status(self, evt, e_mod_num, old_event)
        replies == IF reply_needed(old_event, e_mod_num, response_required)
                   THEN <<<<e_id, e_mod_num, requestID, os[1], os[2]>>>>
                        \o st.reply_events
                   ELSE st.reply_events
        call == offset_call(evt, next_draw(st, rnd))
        new_evt == randomize_start(evt, next_draw(st, rnd))
    IN  IF is_new_or_updated(old_event, e_mod_num)
        THEN [ db |-> update_event(st.db, e_id, new_evt, vtnID),
               reply_events |-> replies,
               all_events |-> Append(st.all_events, e_id),
               updated_events |-> DictSet(st.updated_events, e_id, new_evt),
               offset_calls |-> st.offset_calls
                                  \o [k \in DOMAIN call |-> <<e_id, call[k]>>],
               seen |-> Append(st.seen, [oadrEvent EXCEPT !.eiEvent = new_evt]),
               raised |-> FALSE ]
        ELSE [st EXCEPT !.reply_events = replies,
                        !.all_events = Append(st.all_events, e_id),
                        !.seen = Append(st.seen, oadrEvent)]

\* loop_decide storing only the events it opts into.
loop_decide_persists_optin_only(self, st, oadrEvent, old_event, requestID, vtnID, rnd) ==
    LET response_required == oadrEvent.oadrResponseRequired
        evt == oadrEvent.eiEvent
        e_id == get_event_id(evt)
        e_mod_num == get_mod_number(evt)
        os == opt_status(self, evt, e_mod_num, old_event)
        replies == IF reply_needed(old_event, e_mod_num, response_required)
                   THEN Append(st.reply_events,
                               <<e_id, e_mod_num, requestID, os[1], os[2]>>)
                   ELSE st.reply_events
        call == offset_call(evt, next_draw(st, rnd))
        new_evt == randomize_start(evt, next_draw(st, rnd))
    IN  IF is_new_or_updated(old_event, e_mod_num) /\ os[1] = "optIn"
        THEN [ db |-> update_event(st.db, e_id, new_evt, vtnID),
               reply_events |-> replies,
               all_events |-> Append(st.all_events, e_id),
               updated_events |-> DictSet(st.updated_events, e_id, new_evt),
               offset_calls |-> st.offset_calls
                                  \o [k \in DOMAIN call |-> <<e_id, call[k]>>],
               seen |-> Append(st.seen, [oadrEvent EXCEPT !.eiEvent = new_evt]),
               raised |-> FALSE ]
        ELSE [st EXCEPT !.reply_events = replies,
                        !.all_events = Append(st.all_events, e_id),
                        !.seen = Append(st.seen, oadrEvent)]

\* loop_decide noting in all_events only the events it stores.
loop_decide_forgets_stale(self, st, oadrEvent, old_event, requestID, vtnID, rnd) ==
    LET response_required == oadrEvent.oadrResponseRequired
        evt == oadrEvent.eiEvent
        e_id == get_event_id(evt)
        e_mod_num == get_mod_number(evt)
        os == opt_status(self, evt, e_mod_num, old_event)
        replies == IF reply_needed(old_event, e_mod_num, response_required)
                   THEN Append(st.reply_events,
                               <<e_id, e_mod_num, requestID, os[1], os[2]>>)
                   ELSE st.reply_events
        call == offset_call(evt, next_draw(st, rnd))
        new_evt == randomize_start(evt, next_draw(st, rnd))
    IN  IF is_new_or_updated(old_event, e_mod_num)
        THEN [ db |-> update_event(st.db, e_id, new_evt, vtnID),
               reply_events |-> replies,
               all_events |-> Append(st.all_events, e_id),
               updated_events |-> DictSet(st.updated_events, e_id, new_evt),
               offset_calls |-> st.offset_calls
                                  \o [k \in DOMAIN call |-> <<e_id, call[k]>>],
               seen |-> Append(st.seen, [oadrEvent EXCEPT !.eiEvent = new_evt]),
               raised |-> FALSE ]
        ELSE [st EXCEPT !.reply_events = replies,
                        !.seen = Append(st.seen, oadrEvent)]

\* One iteration of the loop from line 175 on, old_event being what get_event
\* returned for the id of the event at line 176.
loop_decide(self, st, oadrEvent, old_event, requestID, vtnID, rnd) ==
    LET response_required == oadrEvent.oadrResponseRequired
        evt == oadrEvent.eiEvent
        e_id == get_event_id(evt)
        e_mod_num == get_mod_number(evt)
        os == opt_status(self, evt, e_mod_num, old_event)
        replies == IF reply_needed(old_event, e_mod_num, response_required)
                   THEN Append(st.reply_events,
                               <<e_id, e_mod_num, requestID, os[1], os[2]>>)
                   ELSE st.reply_events
        call == offset_call(evt, next_draw(st, rnd))
        new_evt == randomize_start(evt, next_draw(st, rnd))
    IN  IF is_new_or_updated(old_event, e_mod_num)
        THEN [ db |-> update_event(st.db, e_id, new_evt, vtnID),
               reply_events |-> replies,
               all_events |-> Append(st.all_events, e_id),
               updated_events |-> DictSet(st.updated_events, e_id, new_evt),
               offset_calls |-> st.offset_calls
                                  \o [k \in DOMAIN call |-> <<e_id, call[k]>>],
               seen |-> Append(st.seen, [oadrEvent EXCEPT !.eiEvent = new_evt]),
               raised |-> FALSE ]
        ELSE [st EXCEPT !.reply_events = replies,
                        !.all_events = Append(st.all_events, e_id),
                        !.seen = Append(st.seen, oadrEvent)]

\* loop_body taking an id the pass itself has stored for one not stored.
loop_body_forgets_pass_updates(self, st, oadrEvent, requestID, vtnID, rnd) ==
    LET evt == oadrEvent.eiEvent
        e_id == get_event_id(evt)
    IN  IF mod_number_raises(evt) THEN [st EXCEPT !.raised = TRUE]
        ELSE loop_decide(self, st, oadrEvent,
                         IF e_id \in DOMAIN st.updated_events THEN <<>>
                         ELSE get_event(st.db, e_id),
                         requestID, vtnID, rnd)

\* One iteration of the loop over the oadrEvent elements: the event is parsed
\* (a missing modificationNumber raises), the stored event of its id is read,
\* and the iteration goes on with it.
loop_body(self, st, oadrEvent, requestID, vtnID, rnd) ==
    LET evt == oadrEvent.eiEvent IN
    IF mod_number_raises(evt) THEN [st EXCEPT !.raised = TRUE]
    ELSE loop_decide(self, st, oadrEvent, get_event(st.db, get_event_id(evt)),
                     requestID, vtnID, rnd)

\* The loop, iteration by iteration: steps holds the locals before the first
\* iteration and after each one that has run; an iteration that raises is the
\* last one.
RECURSIVE loop_steps(_, _, _, _, _, _)
loop_steps(self, steps, events, requestID, vtnID, rnd) ==
    LET st == steps[Len(steps)] IN
    IF events = <<>> \/ st.raised THEN steps
    ELSE loop_steps(self,
                    Append(steps, loop_body(self, st, Head(events), requestID, vtnID, rnd)),
                    Tail(events), requestID, vtnID, rnd)

\* The locals when the loop is left.
loop(self, st, events, requestID, vtnID, rnd) ==
    LET steps == loop_steps(self, <<st>>, events, requestID, vtnID, rnd)
    IN  steps[Len(steps)]

\* cancelled_events taking a payload without events for nothing to do.
cancelled_events_unless_empty_batch(db, all_events) ==
    IF all_events = <<>> THEN EmptyDict
    ELSE LET ids == {get_event_id(evt) : evt \in get_active_events(db)}
         IN  [e_id \in {k \in ids : k \notin Range(all_events)} |-> get_event(db, e_id)]

\* The implicitly cancelled events (remove_events of lines 237-243): for each
\* stored event whose own eventID is not in all_events, what get_event gives
\* for that id, None (<<>>) when the row of the event is kept under another
\* key.
cancelled_events(db, all_events) ==
    LET ids == {get_event_id(evt) : evt \in get_active_events(db)}
    IN  [e_id \in {k \in ids : k \notin Range(all_events)} |-> get_event(db, e_id)]

\* ------------------------------------------------------- event_callback
\* What the event_callback of a pass does, as far as handle_payload can tell:
\*   "none"            no event_callback is set;
\*   "returns"         it returns, its arguments and the store left alone;
\*   "raises"          it raises an Exception;
\*   "interrupts"      it raises a BaseException that is no Exception
\*                     (KeyboardInterrupt, SystemExit);
\*   "clears_removed"  it empties the removed dict it is handed and returns;
\*   "clears_store"    it calls update_all_events({}, ..) of the handler and
\*                     returns.
\* except Exception lets a BaseException that is no Exception through.
callback_propagates(cb) == cb = "interrupts"
\* The callback is handed the dict remove_events itself: what is in it
\* after the call.
callback_removed(remove, cb) == IF cb = "clears_removed" THEN EmptyDict ELSE remove
\* The store after the call.
callback_store(db, cb) ==
    IF cb = "clears_store" THEN update_all_events(db, EmptyDict, None) ELSE db

\* What a pass leaves: how it ended ("returned", "raised" or, for a rejected
\* payload, "error"), the reply, the store, the keys handed to remove_events,
\* the calls of the callback, each with its arguments and the store as it is
\* at the call, and (added by handle_payload) the locals of its loop iteration
\* by iteration.
no_calls == <<>>

\* finish_pass letting the fault of the callback out of handle_payload.
finish_pass_fault_propagates(self, st, cb) ==
    LET remove == cancelled_events(st.db, st.all_events)
        calls == IF cb = "none" THEN no_calls
                 ELSE << [ updated |-> st.updated_events,
                           removed |-> remove,
                           db |-> st.db ] >>
        called_db == callback_store(st.db, cb)
        keys == DOMAIN callback_removed(remove, cb)
        final_db == remove_events(called_db, keys)
    IN  IF callback_propagates(cb) \/ cb = "raises"
        THEN [ outcome |-> "raised", reply |-> <<>>, db |-> called_db,
               reply_events |-> <<>>, removed |-> {}, calls |-> calls ]
        ELSE IF st.reply_events # <<>> /\ build_created_payload_raises(self, st.reply_events)
        THEN [ outcome |-> "raised", reply |-> <<>>, db |-> final_db,
               reply_events |-> <<>>, removed |-> keys, calls |-> calls ]
        ELSE [ outcome |-> "returned",
               reply |-> IF st.reply_events # <<>>
                         THEN <<build_created_payload(self, st.reply_events)>>
                         ELSE <<>>,
               db |-> final_db,
               reply_events |-> st.reply_events,
               removed |-> keys,
               calls |-> calls ]

\* finish_pass building a reply payload for an empty reply_events list too.
finish_pass_always_replies(self, st, cb) ==
    LET remove == cancelled_events(st.db, st.all_events)
        calls == IF cb = "none" THEN no_calls
                 ELSE << [ updated |-> st.updated_events,
                           removed |-> remove,
                           db |-> st.db ] >>
        called_db == callback_store(st.db, cb)
        keys == DOMAIN callback_removed(remove, cb)
        final_db == remove_events(called_db, keys)
    IN  IF callback_propagates(cb)
        THEN [ outcome |-> "raised", reply |-> <<>>, db |-> called_db,
               reply_events |-> <<>>, removed |-> {}, calls |-> calls ]
        ELSE IF build_created_payload_raises(self, st.reply_events)
        THEN [ outcome |-> "raised", reply |-> <<>>, db |-> final_db,
               reply_events |-> <<>>, removed |-> keys, calls |-> calls ]
        ELSE [ outcome |-> "returned",
               reply |-> <<build_created_payload(self, st.reply_events)>>,
               db |-> final_db,
               reply_events |-> st.reply_events,
               removed |-> keys,
               calls |-> calls ]

\* After the loop (lines 236-261): the cancelled events are collected; the
\* callback, when one is set, is called with updated_events and remove_events;
\* a fault of it that is no Exception ends the pass there; remove_events is
\* called with the keys the dict has after the call; and the reply is built
\* when reply_events is not empty, which raises on a None request or event id.
finish_pass(self, st, cb) ==
    LET remove == cancelled_events(st.db, st.all_events)
        calls == IF cb = "none" THEN no_calls
                 ELSE << [ updated |-> st.updated_events,
                           removed |-> remove,
                           db |-> st.db ] >>
        called_db == callback_store(st.db, cb)
        keys == DOMAIN callback_removed(remove, cb)
        final_db == remove_events(called_db, keys)
    IN  IF callback_propagates(cb)
        THEN [ outcome |-> "raised", reply |-> <<>>, db |-> called_db,
               reply_events |-> <<>>, removed |-> {}, calls |-> calls ]
        ELSE IF st.reply_events # <<>> /\ build_created_payload_raises(self, st.reply_events)
        THEN [ outcome |-> "raised", reply |-> <<>>, db |-> final_db,
               reply_events |-> <<>>, removed |-> keys, calls |-> calls ]
        ELSE [ outcome |-> "returned",
               reply |-> IF st.reply_events # <<>>
                         THEN <<build_created_payload(self, st.reply_events)>>
                         ELSE <<>>,
               db |-> final_db,
               reply_events |-> st.reply_events,
               removed |-> keys,
               calls |-> calls ]

\* The payload as the loop leaves it: the elements it has been over as it
\* left them, the others as they came.
payload_after(payload, st) ==
    [payload EXCEPT !.events =
        st.seen \o SubSeq(payload.events, Len(st.seen) + 1, Len(payload.events))]

\* handle_payload: the VTN check (building the error payload raises on a None
\* ven_id), the loop, and the rest of the pass unless the loop raised; payload
\* is the payload the caller holds after the pass.
handle_payload(self, db, payload, cb, rnd) ==
    LET requestID == payload.requestID
        vtnID == payload.vtnID
    IN  IF vtn_rejected(self, vtnID)
        THEN IF build_error_response_raises(self)
             THEN [ outcome |-> "raised", reply |-> <<>>, db |-> db,
                    reply_events |-> <<>>, removed |-> {},
                    calls |-> no_calls, steps |-> <<>>, payload |-> payload ]
             ELSE [ outcome |-> "error",
                    reply |-> <<build_error_response(self, requestID, "400",
                                                     <<"Unknown vtnID: ", vtnID>>)>>,
                    db |-> db, reply_events |-> <<>>, removed |-> {},
                    calls |-> no_calls, steps |-> <<>>, payload |-> payload ]
        ELSE LET steps == loop_steps(self, <<loop_start(db)>>, payload.events,
                                     requestID, vtnID, rnd)
                 st == steps[Len(steps)]
             IN  IF st.raised
                 THEN [ outcome |-> "raised", reply |-> <<>>, db |-> st.db,
                        reply_events |-> <<>>, removed |-> {},
                        calls |-> no_calls, steps |-> steps,
                        payload |-> payload_after(payload, st) ]
                 ELSE finish_pass(self, st, cb)
                      @@ [steps |-> steps, payload |-> payload_after(payload, st)]

\* ------------------------------------------------------------ the VEN
VARIABLES
    handler,   \* the EventHandler's configuration (self)
    db,        \* the Event Store
    phase,     \* "idle", "composing" (a VTN assembles a payload), "done"
    payload,   \* the oadrDistributeEvent payload in flight, and after a
               \* pass the payload as the pass left it
    pre_payload, \* the payload as the last pass was handed it
    pre_db,    \* the store when handle_payload was entered
    callback,  \* what event_callback was in the last pass
    draw,      \* the Offset Scheduler's draws in the last pass, call by call
    out,       \* what the last handle_payload pass left
    probe,     \* one event put to the decision functions: the event, the
               \* stored event of its id, its response flag
    verdict,   \* what the decision functions make of the probe
    race       \* handle_payload passes running as threads on the one store:
               \* whether they are serialized, where each thread is, and the
               \* writes that lowered a stored modificationNumber

vars == <<handler, db, phase, payload, pre_payload, pre_db, callback, draw, out, probe, verdict, race>>

\* The VEN's own identity.
LocalIdentity ==
    [ ven_id |-> <<"VEN1">>, group_id |-> <<"G1">>, resource_id |-> <<"RES1">>, party_id |-> <<"P1">> ]

\* EventHandler.__init__: the parsed vtn_ids and market_contexts lists (None
\* is <<>>, the code tests only their truthiness) and the local identity.
NewHandler(vtn_ids, market_contexts) ==
    [ ven_id |-> LocalIdentity.ven_id,
      vtn_ids |-> vtn_ids,
      market_contexts |-> market_contexts,
      group_id |-> LocalIdentity.group_id,
      resource_id |-> LocalIdentity.resource_id,
      party_id |-> LocalIdentity.party_id ]

Handlers ==
    { NewHandler(<<>>, <<>>),
      NewHandler(<<<<"VTN1">>>>, <<>>),
      NewHandler(<<>>, <<<<"mkt1">>>>),
      NewHandler(<<<<"VTN1">>, <<"VTN2">>>>, <<>>) }

\* ------------------------------------------------- what the VTNs send
EventIds == {<<"E1">>, <<"E2">>}
\* <<requestID, vtnID>>: each VTN numbers its own requests.
Headers == { << <<"REQ1">>, <<"VTN1">> >>, << <<"REQ2">>, <<"VTN2">> >> }
\* A handler that accepts VTN1 alone is also sent payloads of it without a
\* requestID element.
HeadersOf(self) ==
    IF Len(self.vtn_ids) = 1 THEN Headers \cup { << None, <<"VTN1">> >> } ELSE Headers
ResponseRequired == {<<"always">>, <<"never">>, <<"ifUpdated">>}
Mods == 0..MaxMod
\* A draw below and a draw above the start.
RndDraws == {-1, 1}
\* The callbacks of the passes: those that leave the dicts they are handed and
\* the handler alone.
Callbacks == {"none", "returns", "raises", "interrupts"}
\* The handlers of the filter and of the jitter scenario have no callback or
\* one that returns.
CallbacksOf(self) ==
    IF self.market_contexts # <<>> \/ Len(self.vtn_ids) = 2 THEN {"none", "returns"}
    ELSE Callbacks

Interval(d, u, v) == [duration |-> d, uid |-> u, value |-> v]
Signal(n, t, ivs) == [signalName |-> n, signalType |-> t, intervals |-> ivs]
SimplePrice == Signal(<<"simple">>, <<"price">>, <<Interval(<<"PT1H">>, <<"0">>, <<"1.0">>)>>)
OtherSignal == Signal(<<"other">>, <<"price">>, <<Interval(<<"PT1H">>, <<"0">>, <<"2.0">>)>>)
\* A simple signal of two intervals, and one without intervals.
SimpleLevel ==
    Signal(<<"simple">>, <<"level">>,
           << Interval(<<"PT2H">>, <<"0">>, <<"3.0">>),
              Interval(<<"PT3H">>, <<"1">>, <<"4.0">>) >>)
SimpleEmpty == Signal(<<"simple">>, <<"price">>, <<>>)

EiEvent(id, mod, mc, group, sigs, tol) ==
    [ eventID |-> id, modificationNumber |-> mod, marketContext |-> mc,
      partyID |-> <<>>, groupID |-> group, resourceID |-> <<>>, venID |-> <<>>,
      signals |-> sigs, dtstart |-> 10, startbefore |-> tol, startafter |-> tol ]

OadrEvent(rr, evt) == [oadrResponseRequired |-> rr, eiEvent |-> evt]

\* Untargeted events with a simple signal: every version and response flag
\* of E1, and a second event E2.
PlainEvents ==
    { OadrEvent(rr, EiEvent(<<"E1">>, <<m>>, <<"mkt1">>, <<>>, <<SimplePrice>>, <<>>)) :
        rr \in ResponseRequired, m \in Mods }
    \cup { OadrEvent(<<"always">>, EiEvent(<<"E2">>, <<0>>, <<"mkt1">>, <<>>, <<SimplePrice>>, <<>>)) }

\* An event without a modificationNumber.
MalformedEvents ==
    { OadrEvent(<<"always">>, EiEvent(<<"E2">>, <<>>, <<"mkt1">>, <<>>, <<SimplePrice>>, <<>>)) }

StoreCatalogue == PlainEvents \cup MalformedEvents

\* What the filters of a reply look at: <<marketContext, groupID, signals>>.
FilterBodies ==
    { <<<<"mkt1">>, <<>>, <<SimplePrice>>>>,        \* passes every check
      <<<<"mkt1">>, <<<<"G2">>>>, <<SimplePrice>>>>,    \* targets another group
      <<<<"mkt1">>, <<>>, <<OtherSignal>>>>,        \* no simple signal
      <<<<"mkt2">>, <<>>, <<SimplePrice>>>>,        \* another market context
      <<<<"mkt2">>, <<<<"G2">>>>, <<SimplePrice>>>> }   \* another group and market

FilterCatalogue ==
    { OadrEvent(rr, EiEvent(<<"E1">>, <<m>>, b[1], b[2], b[3], <<>>)) :
        rr \in {<<"always">>, <<"ifUpdated">>}, m \in Mods, b \in FilterBodies }

\* The start tolerances of an event: <<startbefore, startafter>>, none, one
\* or both given, and an xcal:startbefore element without text.
JitterTolerances ==
    { <<<<>>, <<>>>>, <<<<"PT1M">>, <<>>>>, <<<<>>, <<"PT1M">>>>,
      <<<<"PT1M">>, <<"PT1M">>>>, <<<<"">>, <<>>>> }

JitterCatalogue ==
    { OadrEvent(<<"always">>,
          [EiEvent(<<"E1">>, <<m>>, <<"mkt1">>, <<>>, <<SimplePrice>>, <<>>)
              EXCEPT !.startbefore = t[1], !.startafter = t[2]]) :
        m \in Mods, t \in JitterTolerances }

\* A handler with a market-context list is sent the filter catalogue, one
\* that accepts both VTNs by name the jitter catalogue, the others the store
\* catalogue.
Catalogue(self) ==
    IF Truthy(self.market_contexts) THEN FilterCatalogue
    ELSE IF Len(self.vtn_ids) = 2 THEN JitterCatalogue
    ELSE StoreCatalogue
BatchLimit(self) ==
    IF Truthy(self.market_contexts) THEN MaxBatchFilter
    ELSE IF Len(self.vtn_ids) = 2 THEN MaxBatchJitter
    ELSE MaxBatch

\* The scheduler draws only for an event with a start tolerance: the lists
\* of draws a pass over payload p can use, one draw for each such event.
Draws(p) ==
    LET tolerant == { i \in 1..Len(p.events) :
                        LET so == get_start_before_after(p.events[i].eiEvent)
                        IN  Truthy(so[1]) \/ Truthy(so[2]) }
    IN  [1..Cardinality(tolerant) -> RndDraws]

\* What the host hands the public store methods of the handler: the events of
\* the catalogue that have a modificationNumber (get_mod_number raises on the
\* others before the store is touched), each under its own id as the methods
\* ask, the dicts of at most one of them, the names of the VTNs the handler
\* accepts, and the lists of ids.
HostEvents(self) ==
    { oadrEvent.eiEvent : oadrEvent \in { e \in Catalogue(self) : ~mod_number_raises(e.eiEvent) } }
HostDicts(self) ==
    {EmptyDict} \cup { DictSet(EmptyDict, get_event_id(evt), evt) : evt \in HostEvents(self) }
HostVtnIds(self) == { h[2] : h \in { x \in Headers : ~vtn_rejected(self, x[2]) } }
HostIdLists == (SUBSET EventIds) \ {{}}

NoPayload == [requestID |-> None, vtnID |-> None, events |-> <<>>]
NoOut ==
    [ outcome |-> "none", reply |-> <<>>, db |-> EmptyDict, reply_events |-> <<>>,
      removed |-> {}, calls |-> no_calls, steps |-> <<>>, payload |-> NoPayload ]

NoProbe == [evt |-> <<>>, old_event |-> <<>>, response_required |-> None]
NoVerdict ==
    [ accept |-> FALSE, signals |-> <<>>, reply_needed |-> FALSE, opt_status |-> <<>> ]

\* No pass runs as a thread.
NoRace == [mode |-> "none", threads |-> <<>>, lowered |-> {}]

Init ==
    /\ handler \in Handlers
    /\ probe = NoProbe
    /\ verdict = NoVerdict
    /\ db = EmptyDict
    /\ phase = "idle"
    /\ payload = NoPayload
    /\ pre_payload = NoPayload
    /\ pre_db = EmptyDict
    /\ callback = "none"
    /\ draw = <<>>
    /\ out = NoOut
    /\ race = NoRace

\* A VTN starts a payload.
VtnNewPayload(requestID, vtnID) ==
    /\ phase \in {"idle", "done"}
    /\ phase' = "composing"
    /\ payload' = [requestID |-> requestID, vtnID |-> vtnID, events |-> <<>>]
    /\ pre_payload' = NoPayload
    /\ pre_db' = db
    /\ callback' = "none"
    /\ draw' = <<>>
    /\ out' = NoOut
    /\ UNCHANGED <<handler, db, probe, verdict, race>>

\* The VTN adds an oadrEvent to the payload.
VtnAddEvent(oadrEvent) ==
    /\ phase = "composing"
    /\ Len(payload.events) < BatchLimit(handler)
    /\ payload' = [payload EXCEPT !.events = Append(@, oadrEvent)]
    /\ UNCHANGED <<handler, db, phase, pre_payload, pre_db, callback, draw, out,
                   probe, verdict, race>>

\* EventHandler.handle_payload on the payload.
HandlePayload(cb, rnd) ==
    /\ phase = "composing"
    /\ out' = handle_payload(handler, db, payload, cb, rnd)
    /\ db' = out'.db
    /\ pre_payload' = payload
    /\ payload' = out'.payload
    /\ callback' = cb
    /\ draw' = rnd
    /\ phase' = "done"
    /\ UNCHANGED <<handler, pre_db, probe, verdict, race>>

\* handle_payload has returned or raised: the host is through with the pass
\* and with what it left.
PassOver ==
    /\ phase = "done"
    /\ phase' = "idle"
    /\ pre_db' = db
    /\ payload' = NoPayload
    /\ pre_payload' = NoPayload
    /\ callback' = "none"
    /\ draw' = <<>>
    /\ out' = NoOut
    /\ UNCHANGED <<handler, db, probe, verdict, race>>

\* Between two passes the host changes the store through the public methods
\* of the handler.
HostCall(new_db) ==
    /\ phase = "idle"
    /\ db' = new_db
    /\ pre_db' = new_db
    /\ UNCHANGED <<handler, phase, payload, pre_payload, callback, draw, out,
                   probe, verdict, race>>

\* The host calls EventHandler.update_event.
HostUpdateEvent(e_id, event, vtn_id) ==
    HostCall(update_event(db, e_id, event, vtn_id))

\* The host calls EventHandler.update_all_events.
HostUpdateAllEvents(event_dict, vtn_id) ==
    HostCall(update_all_events(db, event_dict, vtn_id))

\* The host calls EventHandler.remove_events.
HostRemoveEvents(evt_id_list) ==
    HostCall(remove_events(db, evt_id_list))

Next ==
    \/ \E h \in HeadersOf(handler) : VtnNewPayload(h[1], h[2])
    \/ \E oadrEvent \in Catalogue(handler) : VtnAddEvent(oadrEvent)
    \/ \E cb \in CallbacksOf(handler), rnd \in Draws(payload) : HandlePayload(cb, rnd)
    \/ PassOver
    \/ \E event \in HostEvents(handler), vtn_id \in HostVtnIds(handler) :
          HostUpdateEvent(get_event_id(event), event, vtn_id)
    \/ \E event_dict \in HostDicts(handler), vtn_id \in HostVtnIds(handler) :
          HostUpdateAllEvents(event_dict, vtn_id)
    \/ \E evt_id_list \in HostIdLists : HostRemoveEvents(evt_id_list)

Spec == Init /\ [][Next]_vars

\* ---------------------------------------------------- the last pass, by event
\* The locals of the last pass after its first i loop iterations (those it
\* was left with, when it was left before).
LocalsAfter(i) ==
    out.steps[IF i + 1 <= Len(out.steps) THEN i + 1 ELSE Len(out.steps)]

\* Iteration i of the last pass ran and got past the parsing of the event.
Ran(i) ==
    /\ phase = "done" /\ out.outcome # "error"
    /\ i \in 1..Len(pre_payload.events)
    /\ ~LocalsAfter(i).raised

IncomingEvent(i) == pre_payload.events[i].eiEvent
\* The stored record iteration i compares with, <<>> when there is none.
OldEvent(i) == get_event(LocalsAfter(i - 1).db, get_event_id(IncomingEvent(i)))
\* Iteration i appended a decision; the decision.
Replied(i) == Len(LocalsAfter(i).reply_events) = Len(LocalsAfter(i - 1).reply_events) + 1
Decision(i) == LocalsAfter(i).reply_events[Len(LocalsAfter(i).reply_events)]

\* The pass ran to its end and the decision of iteration i is in its list.
Returned == phase = "done" /\ out.outcome = "returned"
BatchIds == {get_event_id(pre_payload.events[i].eiEvent) : i \in 1..Len(pre_payload.events)}

\* --------------------------------------------------------------------- C1
\* Iteration i met a stored record at least as new as the incoming one.
NotNewer(i) ==
    /\ Ran(i)
    /\ OldEvent(i) # <<>>
    /\ get_mod_number(IncomingEvent(i)) <= get_mod_number(OldEvent(i)[1])

\* No incoming record with a modificationNumber <= the stored one changed the
\* store in the last pass.
StaleRecordsIgnored ==
    \A i \in 1..Len(pre_payload.events) :
        NotNewer(i) => LocalsAfter(i).db = LocalsAfter(i - 1).db

\* C1: over a handle_payload pass (pre_db is the store the pass is entered
\* with, and follows the store outside a pass), while an event id stays in the
\* store, an incoming record whose modificationNumber is <= the stored one
\* never changes the stored row (content, modification number, owning VTN),
\* and a stored row only changes to one with a strictly greater
\* modificationNumber.
C1_StoredVersionOnlyIncreases ==
    /\ phase # "done" => db = pre_db
    /\ phase = "done" =>
          /\ \A e_id \in (DOMAIN pre_db) \cap (DOMAIN db) :
                db[e_id] # pre_db[e_id] =>
                    /\ db[e_id].mod_num > pre_db[e_id].mod_num
                    /\ get_mod_number(db[e_id].raw_xml) = db[e_id].mod_num
          /\ StaleRecordsIgnored

\* A record of another VTN with an equal or smaller modificationNumber came in
\* for a stored id, and the stored row is as it was.
C1_Witness ==
    /\ Returned
    /\ \E i \in 1..Len(pre_payload.events) :
          LET e_id == get_event_id(IncomingEvent(i)) IN
          /\ NotNewer(i)
          /\ e_id \in DOMAIN pre_db /\ e_id \in DOMAIN db
          /\ pre_db[e_id].vtn_id # pre_payload.vtnID
          /\ db[e_id] = pre_db[e_id]

\* --------------------------------------------------------------------- C2
MarketContextFails(i) ==
    /\ Truthy(handler.market_contexts)
    /\ get_market_context(IncomingEvent(i)) \notin Range(handler.market_contexts)

\* C2 as stated: every replied-to event whose modificationNumber is less than
\* or equal to the stored one is answered optOut/403.
C2_AsStated ==
    \A i \in 1..Len(pre_payload.events) :
        (NotNewer(i) /\ Replied(i)) =>
            (Decision(i)[4] = "optOut" /\ Decision(i)[5] = "403")

\* C2, amended: a replied-to event whose modificationNumber is strictly less
\* than the stored one is answered optOut, with status 403 unless the
\* market-context filter fails too (then 405); an equal modificationNumber is no
\* version conflict and is answered optIn/200 when the targeting, signal and
\* market-context checks pass.
C2_StrictlySmallerOptsOut ==
    \A i \in 1..Len(pre_payload.events) :
        (NotNewer(i) /\ Replied(i)) =>
            LET evt == IncomingEvent(i)
                smaller == get_mod_number(evt) < get_mod_number(OldEvent(i)[1])
            IN  /\ smaller =>
                    /\ Decision(i)[4] = "optOut"
                    /\ Decision(i)[5] = IF MarketContextFails(i) THEN "405" ELSE "403"
                /\ ( /\ ~smaller
                     /\ check_target_info(handler, evt)
                     /\ get_signals(evt) # <<>>
                     /\ ~MarketContextFails(i) ) =>
                    (Decision(i)[4] = "optIn" /\ Decision(i)[5] = "200")

\* A reply was due for an event with a strictly smaller modificationNumber and
\* the returned list holds optOut/403 for it.
C2_Witness ==
    /\ Returned
    /\ \E i \in 1..Len(pre_payload.events) :
          /\ NotNewer(i) /\ Replied(i)
          /\ get_mod_number(IncomingEvent(i)) < get_mod_number(OldEvent(i)[1])
          /\ out.reply_events[Len(LocalsAfter(i).reply_events)] = Decision(i)
          /\ Decision(i)[5] = "403"

\* --------------------------------------------------------------------- C3
\* C3: after a pass from an accepted VTN that ran to its end, every event id
\* stored before the pass and not in its batch is in the removed dict handed to
\* the callback (with the stored event) and is no longer in the store.
C3_AbsentEventsCancelled ==
    Returned =>
        \A e_id \in (DOMAIN pre_db) \ BatchIds :
            /\ e_id \notin DOMAIN db
            /\ e_id \in out.removed
            /\ callback # "none" =>
                  /\ Len(out.calls) = 1
                  /\ e_id \in DOMAIN out.calls[1].removed
                  /\ out.calls[1].removed[e_id] = <<pre_db[e_id].raw_xml>>

\* A payload with an event left out a stored event, which was cancelled.
C3_Witness ==
    /\ Returned /\ callback = "returns"
    /\ pre_payload.events # <<>>
    /\ \E e_id \in (DOMAIN pre_db) \ BatchIds :
          e_id \notin DOMAIN db /\ e_id \in DOMAIN out.calls[1].removed

\* --------------------------------------------------------------------- C4
\* C4: a payload whose vtnID is not in a non-empty vtn_ids list gets the 400
\* error payload and nothing else happens (no decision, no fault from any
\* event, store as before, callback not called); with no vtn_ids list no
\* payload is rejected.
C4_UnknownVtnRejected ==
    phase = "done" =>
        /\ (handler.vtn_ids # <<>> /\ pre_payload.vtnID \notin Range(handler.vtn_ids)) =>
              /\ out.outcome = "error"
              /\ Len(out.reply) = 1
              /\ reply_text(out.reply[1], "responseCode") = <<"400">>
              /\ reply_text(out.reply[1], "eventResponses") = <<>>
              /\ out.reply_events = <<>>
              /\ db = pre_db
              /\ out.removed = {}
              /\ out.calls = no_calls
        /\ (out.outcome = "error") =>
              (handler.vtn_ids # <<>> /\ pre_payload.vtnID \notin Range(handler.vtn_ids))

\* A payload of an unknown VTN that brought a new event and left out a stored
\* one was rejected, with the callback set.
C4_Witness ==
    /\ phase = "done" /\ out.outcome = "error" /\ callback = "returns"
    /\ (DOMAIN pre_db) \ BatchIds # {}
    /\ BatchIds \ (DOMAIN pre_db) # {}
    /\ db = pre_db

\* --------------------------------------------------------------------- C5
\* C5 as stated: when the callback is called and raises, whatever it raises,
\* the pass ends as the same pass ends with a callback that returns and with no
\* callback: the fault does not leave handle_payload, and the store and the
\* reply are the same.
C5_AsStated ==
    (phase = "done" /\ callback \in {"raises", "interrupts"} /\ out.calls # no_calls) =>
        \A cb \in {"returns", "none"} :
            LET o == handle_payload(handler, pre_db, pre_payload, cb, draw)
            IN  /\ o.outcome = out.outcome
                /\ o.db = db
                /\ o.reply = out.reply

\* C5, amended: when the callback raises an Exception, the fault does not leave
\* handle_payload (the pass raises only when build_created_payload does), and
\* the pass ends, leaves the store and returns the reply as the same pass does
\* with a callback that returns and with no callback; when it raises a
\* BaseException that is no Exception (KeyboardInterrupt, SystemExit) the
\* fault leaves handle_payload: no reply is returned, and the store keeps the
\* updates of the pass and every event that was to be removed.
C5_CallbackFaultIsolated ==
    /\ (phase = "done" /\ callback = "raises" /\ out.calls # no_calls) =>
          /\ out.outcome = "raised" =>
                build_created_payload_raises(handler,
                    LocalsAfter(Len(pre_payload.events)).reply_events)
          /\ \A cb \in {"returns", "none"} :
                LET o == handle_payload(handler, pre_db, pre_payload, cb, draw)
                IN  /\ o.outcome = out.outcome
                    /\ o.db = db
                    /\ o.reply = out.reply
    /\ (phase = "done" /\ callback = "interrupts" /\ out.calls # no_calls) =>
          /\ out.outcome = "raised"
          /\ out.reply = <<>>
          /\ out.removed = {}
          /\ db = LocalsAfter(Len(pre_payload.events)).db
          /\ db = out.calls[1].db

\* The callback raised in a pass that updated an event, cancelled another and
\* returned a reply.
C5_Witness ==
    /\ Returned /\ callback = "raises"
    /\ Len(out.calls) = 1
    /\ DOMAIN out.calls[1].updated # {}
    /\ out.removed # {}
    /\ out.reply # <<>>
    /\ db # pre_db

\* --------------------------------------------------------------------- C6
\* C6: in a pass with a callback set that runs to its end, the callback is
\* called exactly once, and at the call the store is the store as the pass
\* found it (no update_event and no remove_events of the pass has happened).
C6_AsStated ==
    (Returned /\ callback # "none") =>
        /\ Len(out.calls) = 1
        /\ out.calls[1].db = pre_db

\* --------------------------------------------------------------------- C9
ResponseFlag(i) == pre_payload.events[i].oadrResponseRequired
\* The modificationNumbers an id has had before iteration i of the pass: the
\* stored one and those of its earlier occurrences in the batch.
ModsBefore(i) ==
    LET e_id == get_event_id(IncomingEvent(i)) IN
    (IF e_id \in DOMAIN pre_db THEN {pre_db[e_id].mod_num} ELSE {})
    \cup { get_mod_number(IncomingEvent(j)) :
             j \in {k \in 1..(i - 1) : get_event_id(IncomingEvent(k)) = e_id} }
\* A response is eligible for envelope i.
Eligible(i) ==
    /\ ResponseFlag(i) # <<"never">>
    /\ \/ ResponseFlag(i) = <<"always">>
       \/ \A m \in ModsBefore(i) : get_mod_number(IncomingEvent(i)) > m
EligibleUpTo(i) == {j \in 1..i : Eligible(j)}

\* C9: the decision list of a pass that ran to its end holds exactly one
\* decision for each response-eligible envelope, in the order of the batch, each
\* with the id and modificationNumber of its envelope and the request id of the
\* batch.
C9_DecisionsInBatchOrder ==
    Returned =>
        /\ Len(out.reply_events) = Cardinality(EligibleUpTo(Len(pre_payload.events)))
        /\ \A i \in 1..Len(pre_payload.events) :
              Eligible(i) =>
                  LET d == out.reply_events[Cardinality(EligibleUpTo(i))] IN
                  /\ d[1] = get_event_id(IncomingEvent(i))
                  /\ d[2] = get_mod_number(IncomingEvent(i))
                  /\ d[3] = pre_payload.requestID

\* One id came twice in a batch with different modificationNumbers, both
\* occurrences were answered, in their order.
C9_Witness ==
    /\ Returned
    /\ Len(pre_payload.events) = 2
    /\ get_event_id(IncomingEvent(1)) = get_event_id(IncomingEvent(2))
    /\ get_mod_number(IncomingEvent(1)) # get_mod_number(IncomingEvent(2))
    /\ Len(out.reply_events) = 2
    /\ out.reply_events[1][2] = get_mod_number(IncomingEvent(1))
    /\ out.reply_events[2][2] = get_mod_number(IncomingEvent(2))

\* -------------------------------------------------------------------- C10
\* C10 as stated: the error payload of a rejected batch carries the batch's
\* request id, the code 400 and a description naming the rejected VTN id.
C10_AsStated ==
    (phase = "done" /\ out.outcome = "error") =>
        /\ reply_text(out.reply[1], "responseCode") = <<"400">>
        /\ reply_text(out.reply[1], "requestID") = pre_payload.requestID
        /\ reply_text(out.reply[1], "description")
               = << <<"Unknown vtnID: ", pre_payload.vtnID>> >>

\* ------------------------------------------------ the decision functions
\* check_target_info, get_signals, the reply condition and the opt/status of
\* handle_payload, applied to one event, one stored event and one response
\* flag drawn from the sets below.
TargetChoices ==
    [ partyID : {<<>>, <<<<"P1">>>>, <<<<"P2">>>>},
      groupID : { <<>>, << <<"G1">> >>, << <<"G2">> >>, << <<"G2">>, <<"G1">> >>,
                  << <<"None">> >> },
      resourceID : {<<>>, <<<<"RES1">>>>, <<<<"RES2">>>>},
      venID : {<<>>, <<<<"VEN1">>>>, <<<<"VEN2">>>>} ]

SignalChoices ==
    { <<>>,
      <<OtherSignal>>,
      <<Signal(<<"simple">>, <<"x-loadControl">>, <<Interval(<<"PT1H">>, <<"0">>, <<"3.0">>)>>)>>,
      <<OtherSignal, SimplePrice>>,
      <<SimpleEmpty>>,
      <<SimplePrice, SimpleLevel>>,
      <<SimpleLevel, SimplePrice, OtherSignal>> }

ProbeEvents ==
    { [ eventID |-> <<"E1">>, modificationNumber |-> <<1>>, marketContext |-> mc,
        partyID |-> t.partyID, groupID |-> t.groupID,
        resourceID |-> t.resourceID, venID |-> t.venID,
        signals |-> sigs, dtstart |-> 10, startbefore |-> <<>>, startafter |-> <<>> ] :
      mc \in {<<"mkt1">>, <<"mkt2">>}, t \in TargetChoices, sigs \in SignalChoices }

\* No stored event, or one with a smaller, equal or greater modificationNumber.
ProbeOldEvents ==
    {<<>>} \cup
    { <<EiEvent(<<"E1">>, <<m>>, <<"mkt1">>, <<>>, <<SimplePrice>>, <<>>)>> : m \in {0, 1, 2} }

\* A handler with or without a market-context list, and with or without the
\* group, resource and party ids (__init__ defaults them to None).
ProbeHandlers ==
    { [ ven_id |-> <<"VEN1">>, vtn_ids |-> <<>>, market_contexts |-> mcs,
        group_id |-> ids[1], resource_id |-> ids[2], party_id |-> ids[3] ] :
      mcs \in {<<>>, <<<<"mkt1">>>>},
      ids \in { <<<<"G1">>, <<"RES1">>, <<"P1">>>>, <<None, None, None>> } }

InitDecide ==
    /\ handler \in ProbeHandlers
    /\ probe \in [ evt : ProbeEvents, old_event : ProbeOldEvents,
                   response_required : ResponseRequired ]
    /\ verdict = NoVerdict
    /\ db = EmptyDict
    /\ phase = "probe"
    /\ payload = NoPayload
    /\ pre_payload = NoPayload
    /\ pre_db = EmptyDict
    /\ callback = "none"
    /\ draw = <<>>
    /\ out = NoOut
    /\ race = NoRace

Decide ==
    /\ phase = "probe"
    /\ verdict' =
          [ accept |-> check_target_info(handler, probe.evt),
            signals |-> get_signals(probe.evt),
            reply_needed |-> reply_needed(probe.old_event, get_mod_number(probe.evt),
                                          probe.response_required),
            opt_status |-> opt_status(handler, probe.evt, get_mod_number(probe.evt),
                                      probe.old_event) ]
    /\ phase' = "decided"
    /\ UNCHANGED <<handler, db, payload, pre_payload, pre_db, callback, draw, out, probe, race>>

NextDecide == Decide

SpecDecide == InitDecide /\ [][NextDecide]_vars

\* --------------------------------------------------------------------- C7
\* The local id of one of the four kinds is in the event's list of that kind.
TargetedAt(self, evt) ==
    \/ self.party_id \in Range(evt.partyID)
    \/ self.group_id \in Range(evt.groupID)
    \/ self.resource_id \in Range(evt.resourceID)
    \/ self.ven_id \in Range(evt.venID)
Untargeted(evt) ==
    evt.partyID = <<>> /\ evt.groupID = <<>> /\ evt.resourceID = <<>> /\ evt.venID = <<>>
ProbeMarketContextFails ==
    /\ handler.market_contexts # <<>>
    /\ probe.evt.marketContext \notin Range(handler.market_contexts)

\* check_target_info is true exactly when the four target lists are empty or a
\* local id is in the list of its kind.
TargetCheckAsStated ==
    verdict.accept <=> (Untargeted(probe.evt) \/ TargetedAt(handler, probe.evt))

\* C7 as stated: check_target_info is as above, and an event it refuses is
\* answered optOut/403 when a reply is due.
C7_AsStated ==
    phase = "decided" =>
        /\ TargetCheckAsStated
        /\ (~verdict.accept /\ verdict.reply_needed) =>
              verdict.opt_status = <<"optOut", "403">>

\* C7, amended: check_target_info is as above, and an event it refuses is
\* answered optOut when a reply is due, with status 403 unless the
\* market-context filter fails too (then 405).
C7_TargetMatchInAnyCategory ==
    phase = "decided" =>
        /\ TargetCheckAsStated
        /\ (~verdict.accept /\ verdict.reply_needed) =>
              verdict.opt_status =
                  <<"optOut", IF ProbeMarketContextFails THEN "405" ELSE "403">>

\* An event whose group list names the local group and whose party list names
\* another party was accepted.
C7_Witness ==
    /\ phase = "decided"
    /\ <<"P1">> = handler.party_id /\ probe.evt.partyID = <<<<"P2">>>>
    /\ <<"G1">> = handler.group_id /\ probe.evt.groupID = << <<"G2">>, <<"G1">> >>
    /\ verdict.accept
    /\ verdict.reply_needed
    /\ verdict.opt_status = <<"optIn", "200">>

\* --------------------------------------------------------------------- C8
\* No signal of the event is named "simple" with a valid type.
NoAdmissibleSignal(evt) ==
    \A k \in 1..Len(evt.signals) :
        ~(evt.signals[k].signalName = <<"simple">>
            /\ evt.signals[k].signalType \in {<<"level">>, <<"price">>, <<"delta">>, <<"setpoint">>})

\* C8: for an event without a signal named "simple" of type level, price, delta
\* or setpoint, get_signals gives None, and when a reply is due and the
\* targeting check and the market-context filter pass, the reply is optOut/403.
C8_NoSimpleSignalOptsOut ==
    (phase = "decided" /\ NoAdmissibleSignal(probe.evt)) =>
        /\ verdict.signals = <<>>
        /\ (verdict.reply_needed /\ verdict.accept /\ ~ProbeMarketContextFails) =>
              verdict.opt_status = <<"optOut", "403">>

\* A new untargeted event of an accepted market whose only signal is not named
\* "simple" was answered optOut/403.
C8_Witness ==
    /\ phase = "decided"
    /\ probe.evt.signals = <<OtherSignal>>
    /\ probe.old_event = <<>>
    /\ Untargeted(probe.evt)
    /\ ~ProbeMarketContextFails
    /\ verdict.reply_needed
    /\ verdict.signals = <<>>
    /\ verdict.opt_status = <<"optOut", "403">>

\* -------------------------------------------------------------------- C11
\* The decisions of the last pass, as its loop left them.
Decisions == LocalsAfter(Len(pre_payload.events)).reply_events

\* C11: a pass from an accepted VTN that runs to its end returns an
\* oadrCreatedEvent payload exactly when its loop made at least one decision
\* (None otherwise), and the payload holds one eventResponse per decision, in
\* the order of the decisions, with the decision's event id, modification
\* number, request id, opt type and status code, the code being 200, 403 or 405.
C11_ReplyListsDecisions ==
    Returned =>
        /\ (out.reply # <<>>) <=> (Decisions # <<>>)
        /\ out.reply # <<>> =>
              LET p == out.reply[1] IN
              /\ p.tag = "oadrCreatedEvent"
              /\ Len(p.eventResponses) = Len(Decisions)
              /\ \A k \in 1..Len(Decisions) :
                    LET r == p.eventResponses[k]
                        d == Decisions[k]
                    IN  /\ <<r.eventID>> = d[1]
                        /\ r.modificationNumber = ToString(d[2])
                        /\ <<r.requestID>> = d[3]
                        /\ <<r.requestID>> = pre_payload.requestID
                        /\ r.optType = d[4]
                        /\ r.optType \in {"optIn", "optOut"}
                        /\ r.responseCode = d[5]
                        /\ r.responseCode \in {"200", "403", "405"}

\* A pass returned a payload with two event responses, an optOut/403 followed
\* by an optIn/200.
C11_Witness ==
    /\ Returned
    /\ Len(out.reply) = 1
    /\ Len(out.reply[1].eventResponses) = 2
    /\ out.reply[1].eventResponses[1].responseCode = "403"
    /\ out.reply[1].eventResponses[1].optType = "optOut"
    /\ out.reply[1].eventResponses[2].responseCode = "200"
    /\ out.reply[1].eventResponses[2].modificationNumber = "0"

\* -------------------------------------------------------------------- C12
\* The oadrEvent elements of the batch whose modificationNumber parses.
WellFormed(events) == SelectSeq(events, LAMBDA e : ~mod_number_raises(e.eiEvent))
HasMalformed == \E i \in 1..Len(pre_payload.events) : mod_number_raises(IncomingEvent(i))

\* C12 as stated: a pass over a batch with a malformed record ends as the pass
\* over the same batch without that record ends: it returns, with the same
\* store, the same removed events and the same reply.
C12_AsStated ==
    (phase = "done" /\ out.outcome # "error" /\ HasMalformed) =>
        LET rest == [pre_payload EXCEPT !.events = WellFormed(@)]
            o == handle_payload(handler, pre_db, rest, callback, draw)
        IN  /\ out.outcome = "returned"
            /\ db = o.db
            /\ out.removed = o.removed
            /\ out.reply = o.reply

\* -------------------------------------------------------------------- C14
\* Iteration i found no stored record of the id, or one with a smaller
\* modificationNumber.
NewOrNewer(i) ==
    \/ OldEvent(i) = <<>>
    \/ get_mod_number(IncomingEvent(i)) > get_mod_number(OldEvent(i)[1])

\* C14: an iteration appends a decision exactly when oadrResponseRequired is
\* not "never" and (no record is stored for the id, or the incoming
\* modificationNumber is strictly greater than the stored one, or
\* oadrResponseRequired is "always"); an event with "never" gets no decision
\* and is stored all the same when it is new or strictly newer.
C14_ResponseEligibility ==
    \A i \in 1..Len(pre_payload.events) :
        Ran(i) =>
            LET e_id == get_event_id(IncomingEvent(i))
                after == LocalsAfter(i)
            IN  /\ Replied(i) <=>
                      /\ ResponseFlag(i) # <<"never">>
                      /\ (NewOrNewer(i) \/ ResponseFlag(i) = <<"always">>)
                /\ ~Replied(i) => after.reply_events = LocalsAfter(i - 1).reply_events
                /\ (ResponseFlag(i) = <<"never">> /\ NewOrNewer(i)) =>
                      /\ e_id \in DOMAIN after.db
                      /\ after.db[e_id].mod_num = get_mod_number(IncomingEvent(i))
                      /\ after.db[e_id].vtn_id = pre_payload.vtnID
                      /\ e_id \in DOMAIN after.updated_events

\* An event flagged "never" came with a greater modificationNumber than the
\* stored one: the pass made no decision, returned no reply and stored it.
C14_Witness ==
    /\ Returned
    /\ Len(pre_payload.events) = 1
    /\ ResponseFlag(1) = <<"never">>
    /\ OldEvent(1) # <<>> /\ NewOrNewer(1)
    /\ ~Replied(1)
    /\ out.reply = <<>>
    /\ db[get_event_id(IncomingEvent(1))].mod_num = get_mod_number(IncomingEvent(1))
    /\ db # pre_db

\* -------------------------------------------------------------------- C17
\* C17 as stated: a pass that ends without running to its end (the payload is
\* rejected, or an event of the batch raises) leaves the store as it found it.
C17_AsStated ==
    (phase = "done" /\ out.outcome # "returned") =>
        /\ db = pre_db
        /\ out.removed = {}

\* -------------------------------------------------------------------- C18
\* The calls of schedule.random_offset made in iteration i.
OffsetCalls(i) ==
    SubSeq(LocalsAfter(i).offset_calls,
           Len(LocalsAfter(i - 1).offset_calls) + 1, Len(LocalsAfter(i).offset_calls))
\* A bound is given when its element is there and has a text.
BoundSet(i) ==
    \/ Truthy(IncomingEvent(i).startbefore)
    \/ Truthy(IncomingEvent(i).startafter)

\* C18: an iteration calls schedule.random_offset at most once, and calls it
\* exactly when the event is accepted (no stored record, or a strictly greater
\* modificationNumber) and a start tolerance bound is given; the call gets the
\* start and the two bounds of the event, never two absent bounds; the event
\* then stored and put in updated_events has the returned start time, and an
\* accepted event without a bound has its own; the callback gets updated_events
\* as the loop left it.
C18_OffsetOnlyForAcceptedWithBound ==
    /\ \A i \in 1..Len(pre_payload.events) :
          Ran(i) =>
              LET evt == IncomingEvent(i)
                  e_id == get_event_id(evt)
                  after == LocalsAfter(i)
                  calls == OffsetCalls(i)
              IN  /\ Len(calls) <= 1
                  /\ (Len(calls) = 1) <=> (NewOrNewer(i) /\ BoundSet(i))
                  /\ Len(calls) = 1 =>
                        LET c == calls[1][2] IN
                        /\ calls[1][1] = e_id
                        /\ c.start = evt.dtstart
                        /\ c.before = evt.startbefore
                        /\ c.after = evt.startafter
                        /\ (Truthy(c.before) \/ Truthy(c.after))
                        /\ after.db[e_id].raw_xml = [evt EXCEPT !.dtstart = c.new_start]
                        /\ after.updated_events[e_id] = after.db[e_id].raw_xml
                  /\ (NewOrNewer(i) /\ ~BoundSet(i)) =>
                        /\ after.db[e_id].raw_xml = evt
                        /\ after.updated_events[e_id] = evt
                  /\ ~NewOrNewer(i) =>
                        /\ after.db = LocalsAfter(i - 1).db
                        /\ after.updated_events = LocalsAfter(i - 1).updated_events
    /\ (Returned /\ Len(out.calls) = 1) =>
          out.calls[1].updated = LocalsAfter(Len(pre_payload.events)).updated_events

\* An event with only a startafter bound replaced a stored one, the scheduler
\* moved its start, and the moved start is in the store and in what the
\* callback got.
C18_Witness ==
    /\ Returned /\ callback = "returns"
    /\ Len(pre_payload.events) = 1
    /\ OldEvent(1) # <<>> /\ NewOrNewer(1)
    /\ IncomingEvent(1).startbefore = <<>> /\ IncomingEvent(1).startafter # <<>>
    /\ Len(OffsetCalls(1)) = 1
    /\ OffsetCalls(1)[1][2].new_start # IncomingEvent(1).dtstart
    /\ db[<<"E1">>].raw_xml.dtstart = OffsetCalls(1)[1][2].new_start
    /\ out.calls[1].updated[<<"E1">>].dtstart = OffsetCalls(1)[1][2].new_start

\* -------------------------------------------------------------------- C20
\* C20: after a pass from an accepted VTN that ran to its end, with no
\* callback, one that returned or one that raised an Exception, the ids in the
\* store are exactly the ids of the events of the batch: every id of the batch
\* is stored, whether its event was answered optIn, optOut or not at all, none
\* of them was removed, and every other id that was stored was removed.
C20_StoreHoldsBatchIds ==
    Returned =>
        /\ DOMAIN db = BatchIds
        /\ out.removed \cap BatchIds = {}
        /\ out.removed = (DOMAIN pre_db) \ BatchIds

\* The callback raised in a pass whose batch had a stale event answered optOut
\* and an event that got no decision, both of a stored id, and left out
\* another stored id: the store holds the id of the batch and nothing else.
C20_Witness ==
    /\ Returned /\ callback = "raises"
    /\ Len(pre_payload.events) = 2
    /\ OldEvent(1) # <<>> /\ Replied(1) /\ Decision(1)[4] = "optOut"
    /\ OldEvent(2) # <<>> /\ ~Replied(2)
    /\ (DOMAIN pre_db) \ BatchIds # {}
    /\ out.removed # {}
    /\ DOMAIN db = BatchIds

\* -------------------------------------------------------------------- C21
\* The pass handle_payload makes of the payload of the last pass on the store
\* that pass left, with callback cb and scheduler draws rnd.
Replay(cb, rnd) == handle_payload(handler, db, pre_payload, cb, rnd)

\* C21: after a pass that ran to its end, a second pass of the same payload
\* with the same callback, whatever the scheduler draws, runs to its end and
\* leaves the store as it is: no record is written again, no start
\* time is drawn again, nothing is removed, and the callback gets an empty
\* updated dict and an empty removed dict; the payload object the first pass
\* was handed, start times rewritten, leaves the store as it is as well.
C21_ReplayLeavesStore ==
    Returned =>
        \A rnd \in Draws(pre_payload) :
            LET cb == callback
                o == Replay(cb, rnd)
                last == o.steps[Len(o.steps)]
            IN  /\ o.outcome = "returned"
                /\ o.db = db
                /\ o.removed = {}
                /\ last.db = db
                /\ last.updated_events = EmptyDict
                /\ last.offset_calls = <<>>
                /\ cb # "none" =>
                      /\ Len(o.calls) = 1
                      /\ o.calls[1].updated = EmptyDict
                      /\ o.calls[1].removed = EmptyDict
                /\ handle_payload(handler, db, payload, cb, rnd).db = db

\* A pass stored an event with a start tolerance over an older record and the
\* scheduler moved its start; the same payload again, with another draw, left
\* the moved start in the store and gave the callback two empty dicts.
C21_Witness ==
    /\ Returned /\ callback = "returns"
    /\ Len(pre_payload.events) = 1
    /\ OldEvent(1) # <<>>
    /\ Len(OffsetCalls(1)) = 1
    /\ db[<<"E1">>].raw_xml.dtstart # IncomingEvent(1).dtstart
    /\ db # pre_db
    /\ LET o == Replay("returns", [k \in DOMAIN draw |-> 0 - draw[k]]) IN
       /\ o.db = db
       /\ o.calls[1].updated = EmptyDict
       /\ o.calls[1].removed = EmptyDict

\* -------------------------------------------------------------------- C22
\* The places of the batch where id e_id occurs, the greatest
\* modificationNumber among them, and the first place that has it.
Occurrences(e_id) ==
    { i \in 1..Len(pre_payload.events) : get_event_id(IncomingEvent(i)) = e_id }
HighestMod(e_id) ==
    CHOOSE m \in { get_mod_number(IncomingEvent(i)) : i \in Occurrences(e_id) } :
        \A i \in Occurrences(e_id) : get_mod_number(IncomingEvent(i)) <= m
FirstHighest(e_id) ==
    CHOOSE i \in Occurrences(e_id) :
        /\ get_mod_number(IncomingEvent(i)) = HighestMod(e_id)
        /\ \A j \in Occurrences(e_id) :
              get_mod_number(IncomingEvent(j)) = HighestMod(e_id) => i <= j

\* C22: at the end of a pass that ran to its end, for each id of the batch,
\* however often and in whatever order it occurs: when the id was not stored or
\* some occurrence has a modificationNumber strictly greater than the stored
\* one, the record stored and the record in updated_events are the occurrence
\* with the highest modificationNumber (with the start the scheduler gave it,
\* if any); otherwise the stored record is the one stored before the pass and
\* the id is not in updated_events.
C22_HighestOccurrenceWins ==
    Returned =>
        \A e_id \in BatchIds :
            LET last == LocalsAfter(Len(pre_payload.events))
                best == IncomingEvent(FirstHighest(e_id))
            IN  IF e_id \notin DOMAIN pre_db \/ HighestMod(e_id) > pre_db[e_id].mod_num
                THEN /\ db[e_id].mod_num = HighestMod(e_id)
                     /\ [db[e_id].raw_xml EXCEPT !.dtstart = best.dtstart] = best
                     /\ db[e_id].vtn_id = pre_payload.vtnID
                     /\ e_id \in DOMAIN last.updated_events
                     /\ last.updated_events[e_id] = db[e_id].raw_xml
                     /\ Len(out.calls) = 1 => out.calls[1].updated[e_id] = db[e_id].raw_xml
                ELSE /\ db[e_id] = pre_db[e_id]
                     /\ e_id \notin DOMAIN last.updated_events
                     /\ Len(out.calls) = 1 => e_id \notin DOMAIN out.calls[1].updated

\* A batch brought an id twice, the higher modificationNumber first: both
\* occurrences were looked at, and the first is what the store holds and what
\* the callback got.
C22_Witness ==
    /\ Returned /\ callback = "returns"
    /\ Len(pre_payload.events) = 2
    /\ Occurrences(<<"E1">>) = {1, 2}
    /\ get_mod_number(IncomingEvent(1)) > get_mod_number(IncomingEvent(2))
    /\ NewOrNewer(1) /\ ~NewOrNewer(2)
    /\ db[<<"E1">>].raw_xml = IncomingEvent(1)
    /\ out.calls[1].updated[<<"E1">>] = IncomingEvent(1)

\* -------------------------------------------------------------------- C23
\* What the targeting, signal and market-context checks alone make of the
\* event of iteration i.
FreshDecision(i) ==
    LET evt == IncomingEvent(i) IN
    IF MarketContextFails(i) THEN <<"optOut", "405">>
    ELSE IF ~(Untargeted(evt) \/ TargetedAt(handler, evt)) \/ NoAdmissibleSignal(evt)
    THEN <<"optOut", "403">>
    ELSE <<"optIn", "200">>

\* C23: an event that is new or has a strictly greater modificationNumber than
\* the stored one is stored and put in updated_events whether its decision is
\* optIn or optOut, and its decision is what the targeting, signal and
\* market-context checks make of the event itself, whatever record was stored
\* for its id and whatever was decided for that one; the callback gets
\* updated_events as the loop left it.
C23_PersistenceIgnoresDecision ==
    /\ \A i \in 1..Len(pre_payload.events) :
          (Ran(i) /\ NewOrNewer(i)) =>
              LET evt == IncomingEvent(i)
                  e_id == get_event_id(evt)
                  after == LocalsAfter(i)
              IN  /\ e_id \in DOMAIN after.db
                  /\ after.db[e_id].mod_num = get_mod_number(evt)
                  /\ [after.db[e_id].raw_xml EXCEPT !.dtstart = evt.dtstart] = evt
                  /\ e_id \in DOMAIN after.updated_events
                  /\ after.updated_events[e_id] = after.db[e_id].raw_xml
                  /\ Replied(i) =>
                        <<Decision(i)[4], Decision(i)[5]>> = FreshDecision(i)
    /\ (Returned /\ Len(out.calls) = 1) =>
          /\ out.calls[1].updated = LocalsAfter(Len(pre_payload.events)).updated_events
          /\ \A e_id \in DOMAIN out.calls[1].updated :
                db[e_id].raw_xml = out.calls[1].updated[e_id]

\* The store held a record targeted at another group, which a pass can only
\* have answered optOut; the id came again with a greater modificationNumber
\* and no target, was answered optIn/200 and replaced the record.
C23_Witness ==
    /\ Returned /\ callback = "returns"
    /\ Len(pre_payload.events) = 1
    /\ OldEvent(1) # <<>>
    /\ ~check_target_info(handler, OldEvent(1)[1])
    /\ NewOrNewer(1) /\ Replied(1)
    /\ <<Decision(1)[4], Decision(1)[5]>> = <<"optIn", "200">>
    /\ db[<<"E1">>].raw_xml = IncomingEvent(1)
    /\ out.calls[1].updated[<<"E1">>] = IncomingEvent(1)

\* ------------------------------------------- passes running as threads
\* Two threads of the host call handle_payload on the one EventHandler and its
\* store.  A thread can be switched out between any two calls of the store, so
\* the read of the stored event (line 176), the rest of the iteration with its
\* update_event (183-234) and the end of the pass (236-261) are steps of their
\* own.  In mode "serialized" the host lets one pass run at a time.
Threads == {1, 2}
RaceHeader(t) == IF t = 1 THEN <<<<"REQ1">>, <<"VTN1">>>> ELSE <<<<"REQ2">>, <<"VTN2">>>>
\* The modificationNumbers the threads send.
RaceMods == 0..1
\* Two versions of E1, and a second event E2: a payload with one of the two
\* cancels the other, and a payload without events cancels both.
RaceEvents ==
    { OadrEvent(<<"always">>, EiEvent(<<"E1">>, <<m>>, <<"mkt1">>, <<>>, <<SimplePrice>>, <<>>)) :
        m \in RaceMods }
    \cup { OadrEvent(<<"always">>,
                     EiEvent(<<"E2">>, <<0>>, <<"mkt1">>, <<>>, <<SimplePrice>>, <<>>)) }
RaceBatches == UNION { [1..n -> RaceEvents] : n \in 0..MaxRaceBatch }

\* A thread outside handle_payload.  In it, pc is where the thread is, st the
\* locals of the loop, old_event what get_event gave at line 176, pending the
\* ids of the events get_active_events gave at line 238 that the loop of
\* lines 238-243 has not come to, and remove_events the dict of that loop.
IdleThread ==
    [ pc |-> "idle", events |-> <<>>, i |-> 1, old_event |-> <<>>,
      st |-> loop_start(EmptyDict), pending |-> {}, remove_events |-> EmptyDict ]

InitRace ==
    /\ handler = NewHandler(<<>>, <<>>)
    /\ probe = NoProbe
    /\ verdict = NoVerdict
    /\ db = EmptyDict
    /\ phase = "race"
    /\ payload = NoPayload
    /\ pre_payload = NoPayload
    /\ pre_db = EmptyDict
    /\ callback = "none"
    /\ draw = <<>>
    /\ out = NoOut
    /\ \E mode \in {"serialized", "interleaved"} :
          race = [ mode |-> mode, threads |-> [t \in Threads |-> IdleThread],
                   lowered |-> {} ]

\* Thread t enters handle_payload with a payload (lines 148-160).
RaceStart(t, events) ==
    /\ race.threads[t].pc = "idle"
    /\ race.mode = "serialized" =>
          \A u \in Threads : race.threads[u].pc = "idle"
    /\ race' = [race EXCEPT !.threads[t] =
                   [ pc |-> "loop", events |-> events, i |-> 1,
                     old_event |-> <<>>, st |-> loop_start(EmptyDict),
                     pending |-> {}, remove_events |-> EmptyDict ]]
    /\ UNCHANGED <<handler, db, phase, payload, pre_payload, pre_db, callback, draw, out,
                   probe, verdict>>

\* Thread t parses the next event and reads the stored event of its id
\* (lines 163-180).
RaceRead(t) ==
    LET th == race.threads[t] IN
    /\ th.pc = "loop"
    /\ th.i <= Len(th.events)
    /\ race' = [race EXCEPT
                   !.threads[t].pc = "decide",
                   !.threads[t].old_event =
                       get_event(db, get_event_id(th.events[th.i].eiEvent))]
    /\ UNCHANGED <<handler, db, phase, payload, pre_payload, pre_db, callback, draw, out,
                   probe, verdict>>

\* Thread t goes through the rest of the iteration with the stored event it
\* read, update_event writing to the store as it is now (lines 183-234).
RaceDecide(t) ==
    LET th == race.threads[t]
        e_id == get_event_id(th.events[th.i].eiEvent)
        st == loop_decide(handler, [th.st EXCEPT !.db = db], th.events[th.i],
                          th.old_event, RaceHeader(t)[1], RaceHeader(t)[2], <<>>)
        lowering ==
            IF e_id \in DOMAIN db /\ st.db[e_id].mod_num < db[e_id].mod_num
            THEN { [ e_id |-> e_id,
                     read |-> IF th.old_event = <<>> THEN <<>>
                              ELSE <<get_mod_number(th.old_event[1])>>,
                     stored |-> db[e_id].mod_num,
                     written |-> st.db[e_id].mod_num ] }
            ELSE {}
    IN  /\ th.pc = "decide"
        /\ db' = st.db
        /\ race' = [race EXCEPT
                       !.threads[t].pc = "loop",
                       !.threads[t].i = th.i + 1,
                       !.threads[t].old_event = <<>>,
                       !.threads[t].st = [st EXCEPT !.db = EmptyDict],
                       !.lowered = @ \cup lowering]
        /\ UNCHANGED <<handler, phase, payload, pre_payload, pre_db, callback, draw, out,
                       probe, verdict>>

\* Thread t is through the loop and reads the stored events in one store
\* call (get_active_events, line 238); the ids among them that are in
\* all_events need no further store call (line 241).
RaceActive(t) ==
    LET th == race.threads[t]
        ids == {get_event_id(evt) : evt \in get_active_events(db)}
    IN  /\ th.pc = "loop"
        /\ th.i > Len(th.events)
        /\ race' = [race EXCEPT
                       !.threads[t].pc = "cancel",
                       !.threads[t].pending =
                           {e_id \in ids : e_id \notin Range(th.st.all_events)},
                       !.threads[t].remove_events = EmptyDict]
        /\ UNCHANGED <<handler, db, phase, payload, pre_payload, pre_db, callback, draw,
                       out, probe, verdict>>

\* Thread t comes to a stored event that is not in all_events and reads it
\* from the store as it is now (get_event, line 243): None when another pass
\* has removed it since line 238.  The events come in the order of a dict.
RaceCancel(t, e_id) ==
    LET th == race.threads[t] IN
    /\ th.pc = "cancel"
    /\ e_id \in th.pending
    /\ race' = [race EXCEPT
                   !.threads[t].pending = th.pending \ {e_id},
                   !.threads[t].remove_events =
                       DictSet(th.remove_events, e_id, get_event(db, e_id))]
    /\ UNCHANGED <<handler, db, phase, payload, pre_payload, pre_db, callback, draw, out,
                   probe, verdict>>

\* Thread t is through the loop of lines 238-243: no callback is set, the keys
\* of remove_events are removed from the store as it is now (line 253), and the
\* pass returns (lines 255-261).
RaceFinish(t) ==
    LET th == race.threads[t] IN
    /\ th.pc = "cancel"
    /\ th.pending = {}
    /\ db' = remove_events(db, DOMAIN th.remove_events)
    /\ race' = [race EXCEPT !.threads[t] = IdleThread]
    /\ UNCHANGED <<handler, phase, payload, pre_payload, pre_db, callback, draw, out,
                   probe, verdict>>

NextRace ==
    \/ \E t \in Threads, events \in RaceBatches : RaceStart(t, events)
    \/ \E t \in Threads : RaceRead(t)
    \/ \E t \in Threads : RaceDecide(t)
    \/ \E t \in Threads : RaceActive(t)
    \/ \E t \in Threads, e_id \in EventIds : RaceCancel(t, e_id)
    \/ \E t \in Threads : RaceFinish(t)

SpecRace == InitRace /\ [][NextRace]_vars

\* -------------------------------------------------------------------- C13
\* C13: when the passes are serialized no write lowers the stored
\* modificationNumber of an id; and a write lowers it only when the stored
\* event the writing pass compared with (its read at line 176) is not the one
\* in the store at the write: another pass wrote in between.
C13_OnlyInterleavedPassesLower ==
    /\ race.mode = "serialized" => race.lowered = {}
    /\ \A l \in race.lowered :
          /\ l.written < l.stored
          /\ l.read # <<l.stored>>
          /\ l.read # <<>> => l.read[1] < l.written

\* Two passes interleaved and a record with a lower modificationNumber
\* overwrote a higher one: the stored modificationNumber of E1 went down.
C13_Witness ==
    /\ race.mode = "interleaved"
    /\ \E l \in race.lowered :
          /\ l.e_id = <<"E1">>
          /\ l.written < l.stored
          /\ <<"E1">> \in DOMAIN db
          /\ db[<<"E1">>].mod_num = l.written

\* -------------------------------------------------------------------- C15
\* The four checks of a decision, on the probe.
VersionConflict ==
    /\ probe.old_event # <<>>
    /\ get_mod_number(probe.old_event[1]) > get_mod_number(probe.evt)
TargetMismatch == ~(Untargeted(probe.evt) \/ TargetedAt(handler, probe.evt))
SignalInvalid == NoAdmissibleSignal(probe.evt)

\* C15 as stated: the opt type and status of a decision are those of the first
\* check that fails, in the order version conflict (403), targeting (403),
\* signal (403), market context (405), and optIn/200 when none fails.
C15_AsStated ==
    (phase = "decided" /\ verdict.reply_needed) =>
        verdict.opt_status =
            IF VersionConflict \/ TargetMismatch \/ SignalInvalid
            THEN <<"optOut", "403">>
            ELSE IF ProbeMarketContextFails THEN <<"optOut", "405">>
            ELSE <<"optIn", "200">>

\* C15, amended: every check runs and the last one that fails gives the
\* status: optOut/405 when the market-context filter fails, whatever the other
\* checks say; else optOut/403 when the version, targeting or signal check
\* fails; else optIn/200.
C15_LastFailingCheckWins ==
    (phase = "decided" /\ verdict.reply_needed) =>
        verdict.opt_status =
            IF ProbeMarketContextFails THEN <<"optOut", "405">>
            ELSE IF VersionConflict \/ TargetMismatch \/ SignalInvalid
            THEN <<"optOut", "403">>
            ELSE <<"optIn", "200">>

\* An event with a smaller modificationNumber than the stored one, targeted at
\* another group and of a market context not in the list was answered
\* optOut/405.
C15_Witness ==
    /\ phase = "decided"
    /\ verdict.reply_needed
    /\ VersionConflict /\ TargetMismatch /\ ~SignalInvalid
    /\ ProbeMarketContextFails
    /\ verdict.opt_status = <<"optOut", "405">>

\* -------------------------------------------------------------------- C16
\* C16 as stated: an event a reply is due for whose selected simple signal has
\* no intervals, so that get_signals gives an empty list, is not answered
\* optIn/200.
C16_AsStated ==
    (phase = "decided" /\ verdict.reply_needed /\ verdict.signals = << <<>> >>) =>
        verdict.opt_status # <<"optIn", "200">>

\* -------------------------------------------------------------------- C19
\* Signal k of the event is named "simple" and has one of the four types.
Admissible(evt, k) ==
    /\ evt.signals[k].signalName = <<"simple">>
    /\ evt.signals[k].signalType \in {<<"level">>, <<"price">>, <<"delta">>, <<"setpoint">>}
\* The place of the last such signal of the event.
LastAdmissible(evt) ==
    CHOOSE k \in 1..Len(evt.signals) :
        /\ Admissible(evt, k)
        /\ \A j \in (k + 1)..Len(evt.signals) : ~Admissible(evt, j)

\* C19: for an event with a signal named "simple" of type level, price, delta
\* or setpoint, get_signals gives the list of the (duration, uid, value) of the
\* intervals of the last such signal, one tuple an interval, in the order of
\* the intervals, and nothing of any other signal.
C19_LastSimpleSignalWins ==
    (phase = "decided" /\ ~NoAdmissibleSignal(probe.evt)) =>
        LET ivs == probe.evt.signals[LastAdmissible(probe.evt)].intervals IN
        /\ Len(verdict.signals) = 1
        /\ Len(verdict.signals[1]) = Len(ivs)
        /\ \A j \in 1..Len(ivs) :
              verdict.signals[1][j] = <<ivs[j].duration, ivs[j].uid, ivs[j].value>>

\* An event with two simple signals, a price signal of one interval followed
\* by a level signal of two: the two intervals of the level signal came out,
\* in their order.
C19_Witness ==
    /\ phase = "decided"
    /\ probe.evt.signals = <<SimplePrice, SimpleLevel>>
    /\ verdict.signals =
          << << << <<"PT2H">>, <<"0">>, <<"3.0">> >>,
                << <<"PT3H">>, <<"1">>, <<"4.0">> >> >> >>

====
